---- MODULE Spec2Model ----
(***************************************************************************)
(* Load-balancing provider of astrbot_plugin_lb_provider.                  *)
(*                                                                         *)
(*   provider/load_balancer_provider.py    LoadBalancerProvider (router)   *)
(*   provider/load_balance_service.py      LoadBalanceService (engine and  *)
(*                                         stats tracker)                  *)
(*   provider/load_balancer_strategies.py  the five selection strategies   *)
(*   main.py                               LBProviderPlugin (host hooks)   *)
(*                                                                         *)
(* One action is one stretch of code between two suspension points of the  *)
(* asyncio event loop (an await that really suspends, or a yield of the    *)
(* async generator to its consumer).                                       *)
(***************************************************************************)
EXTENDS Integers, Sequences, FiniteSets, TLC

\* ------------------------------------------------------------------ bounds

\* Chunks one node's stream yields at most in one attempt.
MaxChunks == 1
\* Background events of one run: rounds of the health-check loop plus load and
\* unload events of the host's provider manager (the unload of the router included).
MaxEvents == 1
\* Updates applied in a run of the tracker on its own.
MaxUpdates == 5
\* Selections made in a run of a strategy on its own.
MaxSelections == 4
\* Rounds of the health-check loop in a run of the background tasks on their own.
MaxRounds == 2
\* Calls of record_success without a token count in such a run.
MaxMalformed == 1

\* ------------------------------------------------------------- the universe

\* The id of the load balancer provider itself (self.meta().id).
Router == "lb"
\* Ids of the backend providers the host can hold.
Nodes == {"n1", "n2", "n3"}
\* Python's None, as the result of select_provider.
None == "None"
\* The requests (calls of text_chat / text_chat_stream) of one run.
Requests == {"r1", "r2"}
\* The host's instances (PROVIDER_MANAGER.get_insts()) when the router is built.
InitialInsts == <<"n1", Router, "n2">>

\* Elapsed seconds of a successful call, and the (tokens, size) analyze_response
\* gives for each response or chunk of it.
Latencies == {2}
Measures == {[tokens |-> 8, size |-> 4]}

\* The methods a request can be: of the two requests of a run, r1 is a single-shot
\* or a streaming call and r2 a single-shot call.
Methods(r) == IF r = "r1" THEN {"text_chat", "text_chat_stream"} ELSE {"text_chat"}

Range(s) == {s[i] : i \in DOMAIN s}

\* lb_weights: the dict in its iteration order; an entry is the slot
\* "weight_node_<slot>" with its {"provider", "weight"} value, both strings.
Slot(k, p, w) == [slot |-> k, provider |-> p, weight |-> w]

\* The configurations (lb_strategy, lb_weights) a run starts from:
\*   no slot filled in; two nodes in slot order; one node in two slots, before a node
\*   the host has not loaded yet; the slots out
\*   of order with an empty slot, a zero and an unparsable weight; slots naming the
\*   router itself and a node the host has not loaded; an unrecognised strategy name.
Configuration(s, w) == [strategy |-> s, weights |-> w]
Configurations ==
    { Configuration("random", <<>>),
      Configuration("round_robin", << Slot(1, "n1", "1"), Slot(2, "n2", "2") >>),
      Configuration("least_failure", << Slot(1, "n1", "1"), Slot(2, "n1", "2"), Slot(3, "n3", "1") >>),
      Configuration("weighted", << Slot(2, "n2", "0"), Slot(1, "n1", "x"), Slot(3, "", "1") >>),
      Configuration("fastest", << Slot(1, Router, "1"), Slot(2, "n3", "2"), Slot(3, "n2", "-1") >>),
      Configuration("bogus", << Slot(1, "n2", "1"), Slot(2, "n1", "1") >>) }

\* ------------------------------------------------------------------- state

VARIABLES
    insts,              \* PROVIDER_MANAGER.get_insts(): the host's provider ids, in order
    hostOps,            \* load / unload events so far
    strategy,           \* LoadBalancerProvider.strategy ("lb_strategy")
    provider_weights,   \* LoadBalancerProvider.provider_weights ("lb_weights")
    work_providers,     \* LoadBalancerProvider.work_providers = LoadBalanceService._other_providers
    provider_stats,     \* LoadBalanceService.provider_stats
    provider_health,    \* LoadBalanceService.provider_health (absent = healthy)
    last_applied,       \* per node, the last outcome (success, failure) the consumer applied
    stats_queue,        \* LoadBalanceService.stats_queue
    current_index,      \* RoundRobinStrategy.current_index of strategies["round_robin"]
    failback_index,     \* current_index of WeightedStrategy.failback_strategy
    req,                \* per request: where its task stands, and what it did
    hc,                 \* the health-check task, and the updates it has enqueued
    stats_task,         \* LoadBalanceService.stats_task: running | cancelling | done
    term,               \* where LoadBalancerProvider.terminate stands, and the number of
                        \* updates enqueued before the tracker's terminate began
    trace               \* the calls made so far, where one operation is run on its own

vars == << insts, hostOps, strategy, provider_weights, work_providers, provider_stats,
           provider_health, last_applied, stats_queue, current_index, failback_index,
           req, hc, stats_task, term, trace >>

Ids == Nodes \cup {Router}

\* ------------------------------------------------------ sequences (helpers)

\* A remove that drops nothing.
RemoveNothing(s, x) == s

\* list.remove(x): drops the first occurrence of x.
RECURSIVE RemoveFirst(_, _)
RemoveFirst(s, x) ==
    IF s = <<>> THEN <<>>
    ELSE IF Head(s) = x THEN Tail(s)
    ELSE <<Head(s)>> \o RemoveFirst(Tail(s), x)

\* The list with every occurrence of x dropped.
RemoveAll(s, x) == SelectSeq(s, LAMBDA y : y # x)

\* sorted(node_keys, key=...): a stable insertion sort of slots by slot number.
RECURSIVE InsertBySlot(_, _)
InsertBySlot(e, s) ==
    IF s = <<>> THEN <<e>>
    ELSE IF e.slot < Head(s).slot THEN <<e>> \o s
    ELSE <<Head(s)>> \o InsertBySlot(e, Tail(s))

RECURSIVE SortBySlot(_)
SortBySlot(s) ==
    IF s = <<>> THEN <<>>
    ELSE InsertBySlot(s[Len(s)], SortBySlot(SubSeq(s, 1, Len(s) - 1)))

\* ------------------------------------------------------------ configuration

\* LoadBalancerProvider.__init__: the providers of the weight slots that name one,
\* by slot number.
FallbackOrder(weights) ==
    LET node_keys == SortBySlot(SelectSeq(weights, LAMBDA e : e.provider # ""))
    IN  [i \in 1..Len(node_keys) |-> node_keys[i].provider]

fallback_order == FallbackOrder(provider_weights)

\* int(weight) of WeightedStrategy: the strings int() parses.
IntOf == [w \in {"-1", "0", "1", "2", "3"} |->
            CASE w = "-1" -> -1 [] w = "0" -> 0 [] w = "1" -> 1 [] w = "2" -> 2 [] w = "3" -> 3]

DefaultWeight == 1

\* The weight WeightedStrategy gives a provider: that of the first slot (in the dict's
\* order) naming it, 1 when no slot names it or int() raises.
RECURSIVE WeightOf(_, _)
WeightOf(id, weights) ==
    IF weights = <<>> THEN DefaultWeight
    ELSE IF Head(weights).provider = id
         THEN IF Head(weights).weight \in DOMAIN IntOf
              THEN IntOf[Head(weights).weight] ELSE DefaultWeight
         ELSE WeightOf(id, Tail(weights))

\* --------------------------------------------------------- candidate lists

\* The ids of fallback that are in known, in fallback's order (repeats kept).
InOrder(fallback, known) == SelectSeq(fallback, LAMBDA id : id \in known)

\* _load_other_providers without the filter that leaves the router itself out.
LoadOtherProvidersUnfiltered(all_instances, fallback, strat) ==
    LET _providers == all_instances
        rest == SelectSeq(_providers, LAMBDA id : id \notin Range(fallback))
    IN  IF fallback # <<>> /\ strat # "weighted"
        THEN InOrder(fallback, Range(_providers)) \o rest
        ELSE _providers

\* LoadBalancerProvider._load_other_providers: the new content of work_providers.
LoadOtherProviders(all_instances, fallback, strat) ==
    LET _providers == SelectSeq(all_instances, LAMBDA id : id # Router)
        rest == SelectSeq(_providers, LAMBDA id : id \notin Range(fallback))
    IN  IF fallback # <<>> /\ strat # "weighted"
        THEN InOrder(fallback, Range(_providers)) \o rest
        ELSE _providers

\* LoadBalanceService._get_providers_with_order.
GetProvidersWithOrder(providers, fallback) ==
    IF fallback # <<>> THEN InOrder(fallback, Range(providers)) ELSE <<>>

\* A filter that lets every candidate through, whatever its flag.
GetHealthyProvidersUnfiltered(providers, health) == providers

\* LoadBalanceService._get_healthy_providers / the filter of the retry loop.
GetHealthyProviders(providers, health) == SelectSeq(providers, LAMBDA id : health[id])

\* ---------------------------------------------------------------- strategies
\* select_provider as the set of its possible outcomes: the provider picked (or None)
\* and the two round-robin cursors after the call.

Outcome(p, ci, fi) == [pick |-> p, current_index |-> ci, failback_index |-> fi]

\* A round robin whose cursor stays where it is.
RoundRobinStuck(providers, idx) ==
    IF providers = <<>> THEN <<None, idx>>
    ELSE <<providers[(idx % Len(providers)) + 1], idx>>

\* RoundRobinStrategy.select_provider with cursor idx: <<provider, new cursor>>.
RoundRobin(providers, idx) ==
    IF providers = <<>> THEN <<None, idx>>
    ELSE <<providers[(idx % Len(providers)) + 1], (idx + 1) % Len(providers)>>

\* A weighted_list that gives a provider of non-positive weight the weight 1
\* instead of leaving it out.
RECURSIVE WeightedListFloorOne(_, _, _)
WeightedListFloorOne(providers, weights, total) ==
    IF providers = <<>> THEN <<>>
    ELSE LET w == WeightOf(Head(providers), weights)
             weight == IF w > 0 THEN w ELSE 1
         IN  <<[provider |-> Head(providers), end_weight |-> total + weight]>>
             \o WeightedListFloorOne(Tail(providers), weights, total + weight)

\* WeightedStrategy: weighted_list, the (provider, end_weight) pairs of the
\* providers of positive weight.
RECURSIVE WeightedList(_, _, _)
WeightedList(providers, weights, total) ==
    IF providers = <<>> THEN <<>>
    ELSE LET weight == WeightOf(Head(providers), weights)
         IN  IF weight > 0
             THEN <<[provider |-> Head(providers), end_weight |-> total + weight]>>
                  \o WeightedList(Tail(providers), weights, total + weight)
             ELSE WeightedList(Tail(providers), weights, total)

TotalWeight(weighted_list) ==
    IF weighted_list = <<>> THEN 0 ELSE weighted_list[Len(weighted_list)].end_weight

\* A pick that takes end_weight itself into the interval.
RECURSIVE WeightedPickInclusive(_, _)
WeightedPickInclusive(weighted_list, random_weight) ==
    IF weighted_list = <<>> THEN None
    ELSE IF random_weight <= Head(weighted_list).end_weight THEN Head(weighted_list).provider
    ELSE WeightedPickInclusive(Tail(weighted_list), random_weight)

\* The first provider of weighted_list whose end_weight exceeds random_weight.
RECURSIVE WeightedPick(_, _)
WeightedPick(weighted_list, random_weight) ==
    IF weighted_list = <<>> THEN None
    ELSE IF random_weight < Head(weighted_list).end_weight THEN Head(weighted_list).provider
    ELSE WeightedPick(Tail(weighted_list), random_weight)

\* A weighted strategy without the round-robin fallback.
WeightedSelectNoFallback(providers, weights, ci, fi) ==
    LET weighted_list == WeightedList(providers, weights, 0)
        total_weight == TotalWeight(weighted_list)
    IN  IF providers = <<>> \/ weights = <<>> \/ total_weight = 0 THEN {Outcome(None, ci, fi)}
        ELSE {Outcome(WeightedPick(weighted_list, random_weight), ci, fi) :
                 random_weight \in 0..(total_weight - 1)}

\* WeightedStrategy.select_provider.
WeightedSelect(providers, weights, ci, fi) ==
    LET weighted_list == WeightedList(providers, weights, 0)
        total_weight == TotalWeight(weighted_list)
        rr == RoundRobin(providers, fi)
    IN  IF providers = <<>> THEN {Outcome(None, ci, fi)}
        ELSE IF weights = <<>> \/ total_weight = 0 THEN {Outcome(rr[1], ci, rr[2])}
        ELSE {Outcome(WeightedPick(weighted_list, random_weight), ci, fi) :
                 random_weight \in 0..(total_weight - 1)}

\* RandomStrategy.select_provider: random.choice(providers).
RandomSelect(providers, ci, fi) ==
    IF providers = <<>> THEN {Outcome(None, ci, fi)}
    ELSE {Outcome(providers[i], ci, fi) : i \in DOMAIN providers}

\* ExplorationStrategy.select_provider (least_failure, fastest): every score is
\* base_score >= 0 plus an exploration bonus > 0, so total_score > 0 and the uniform
\* draw over [0, total_score] can land in the interval of any provider.
ExplorationSelect(providers, ci, fi) ==
    IF providers = <<>> THEN {Outcome(None, ci, fi)}
    ELSE {Outcome(providers[i], ci, fi) : i \in DOMAIN providers}

\* get_strategy(name).select_provider(providers, stats=..., weights=...);
\* an unknown name gets the random strategy.
SelectProvider(name, providers, weights, ci, fi) ==
    CASE name = "round_robin" ->
            LET rr == RoundRobin(providers, ci) IN {Outcome(rr[1], rr[2], fi)}
      [] name = "weighted" -> WeightedSelect(providers, weights, ci, fi)
      [] name \in {"least_failure", "fastest"} -> ExplorationSelect(providers, ci, fi)
      [] OTHER -> RandomSelect(providers, ci, fi)

\* ------------------------------------------------------------ stats tracker

\* A threshold that no failure rate exceeds.
ThresholdOne == [n |-> 1, d |-> 1]

FAILURE_RATE_THRESHOLD == [n |-> 1, d |-> 2]
MAX_CONSECUTIVE_FAILURES == 3
\* alpha of _record_success.
Alpha == [n |-> 1, d |-> 2]

\* The floats of latency and throughput, as exact fractions n/d in lowest terms.
RECURSIVE GCD(_, _)
GCD(a, b) == IF b = 0 THEN a ELSE GCD(b, a % b)

Frac(n, d) == LET g == GCD(n, d) IN [n |-> n \div g, d |-> d \div g]
Zero == [n |-> 0, d |-> 1]
FracAdd(x, y) == Frac(x.n * y.d + y.n * x.d, x.d * y.d)
FracMul(x, y) == Frac(x.n * y.n, x.d * y.d)
FracGreater(x, y) == x.n * y.d > y.n * x.d

\* defaultdict(lambda: {"success": 0, "failure": 0, "latency": 0.0, "throughput": 0.0})
NewStats == [success |-> 0, failure |-> 0, latency |-> Zero, throughput |-> Zero]

\* new_avg = value if old_avg == 0 else alpha * value + (1 - alpha) * old_avg
Ewma(value, old_avg) ==
    IF old_avg.n = 0 THEN value
    ELSE FracAdd(FracMul(Alpha, value), FracMul(FracAdd([n |-> 1, d |-> 1], [n |-> 0 - Alpha.n, d |-> Alpha.d]), old_avg))

\* The tracker's maps: T.stats, T.health, and T.last (per node, whether the last
\* outcome applied was a "success" or a "failure"; "none" before the first).
Tracker(st, hl, la) == [stats |-> st, health |-> hl, last |-> la]

\* _record_success that restores the flag only when the failure rate allows it.
RecordSuccessKeepsDemotion(T, provider_id, latency, tokens) ==
    LET old == T.stats[provider_id]
        tp == IF latency > 0 THEN Frac(tokens, latency) ELSE Zero
        new == [success |-> old.success + 1,
                failure |-> old.failure,
                latency |-> Ewma(Frac(latency, 1), old.latency),
                throughput |-> Ewma(tp, old.throughput)]
    IN  Tracker([T.stats EXCEPT ![provider_id] = new],
                IF FracGreater(Frac(new.failure, new.success + new.failure),
                               FAILURE_RATE_THRESHOLD)
                THEN T.health ELSE [T.health EXCEPT ![provider_id] = TRUE],
                [T.last EXCEPT ![provider_id] = "success"])

\* LoadBalanceService._record_success.
_record_success(T, provider_id, latency, tokens) ==
    LET old == T.stats[provider_id]
        tp == IF latency > 0 THEN Frac(tokens, latency) ELSE Zero
        new == [success |-> old.success + 1,
                failure |-> old.failure,
                latency |-> Ewma(Frac(latency, 1), old.latency),
                throughput |-> Ewma(tp, old.throughput)]
    IN  Tracker([T.stats EXCEPT ![provider_id] = new],
                [T.health EXCEPT ![provider_id] = TRUE],
                [T.last EXCEPT ![provider_id] = "success"])

\* _record_success called with tokens = None and a latency > 0: lines 179-188 run,
\* then `tokens / latency` (line 191) raises TypeError; the throughput and the
\* health flag are not written.
RecordSuccessTypeError(T, provider_id, latency) ==
    LET old == T.stats[provider_id]
        new == [old EXCEPT !.success = @ + 1,
                           !.latency = Ewma(Frac(latency, 1), @)]
    IN  Tracker([T.stats EXCEPT ![provider_id] = new], T.health, T.last)

\* _record_failure that demotes at a failure rate of exactly the threshold too.
RecordFailureAtThreshold(T, provider_id) ==
    LET old == T.stats[provider_id]
        stats == [old EXCEPT !.failure = @ + 1]
        total == stats.success + stats.failure
        failure_rate == IF total > 0 THEN Frac(stats.failure, total) ELSE Zero
        unhealthy == \/ ~FracGreater(FAILURE_RATE_THRESHOLD, failure_rate)
                     \/ stats.failure >= MAX_CONSECUTIVE_FAILURES /\ stats.success = 0
    IN  Tracker([T.stats EXCEPT ![provider_id] = stats],
                IF unhealthy THEN [T.health EXCEPT ![provider_id] = FALSE] ELSE T.health,
                [T.last EXCEPT ![provider_id] = "failure"])

\* _record_failure with the failure-rate rule never demoting.
RecordFailureNoDemotion(T, provider_id) ==
    LET old == T.stats[provider_id]
        stats == [old EXCEPT !.failure = @ + 1]
    IN  Tracker([T.stats EXCEPT ![provider_id] = stats],
                IF stats.failure >= MAX_CONSECUTIVE_FAILURES /\ stats.success = 0
                THEN [T.health EXCEPT ![provider_id] = FALSE] ELSE T.health,
                [T.last EXCEPT ![provider_id] = "failure"])

\* LoadBalanceService._record_failure.
_record_failure(T, provider_id) ==
    LET old == T.stats[provider_id]
        stats == [old EXCEPT !.failure = @ + 1]
        total == stats.success + stats.failure
        failure_rate == IF total > 0 THEN Frac(stats.failure, total) ELSE Zero
        unhealthy == \/ FracGreater(failure_rate, FAILURE_RATE_THRESHOLD)
                     \/ stats.failure >= MAX_CONSECUTIVE_FAILURES /\ stats.success = 0
    IN  Tracker([T.stats EXCEPT ![provider_id] = stats],
                IF unhealthy THEN [T.health EXCEPT ![provider_id] = FALSE] ELSE T.health,
                [T.last EXCEPT ![provider_id] = "failure"])

\* _reset_failure_count without the max(0, ...) of line 228.
ResetFailureCountNoFloor(T, provider_id) ==
    LET old == T.stats[provider_id]
    IN  Tracker([T.stats EXCEPT ![provider_id] = [old EXCEPT !.failure = @ - 1]],
                T.health,
                T.last)

\* LoadBalanceService._reset_failure_count.
_reset_failure_count(T, provider_id) ==
    LET old == T.stats[provider_id]
        failure == IF old.failure - 1 > 0 THEN old.failure - 1 ELSE 0
    IN  Tracker([T.stats EXCEPT ![provider_id] = [old EXCEPT !.failure = failure]],
                T.health,
                T.last)

\* The queue's items: (func, args).
SuccessUpdate(id, latency, tokens) ==
    [func |-> "_record_success", id |-> id, latency |-> latency, tokens |-> tokens]
FailureUpdate(id) == [func |-> "_record_failure", id |-> id, latency |-> 0, tokens |-> 0]
ResetUpdate(id) == [func |-> "_reset_failure_count", id |-> id, latency |-> 0, tokens |-> 0]

\* record_success(id, latency, None) with latency > 0: the item whose update function
\* raises when the consumer runs it.
MalformedSuccessUpdate(id, latency) ==
    [func |-> "_record_success(tokens=None)", id |-> id, latency |-> latency, tokens |-> 0]

\* await func(*args, **kwargs) of queue_consumer; an Exception of the update function
\* is logged by the consumer (lines 258-260) and what it wrote before stays.
ApplyUpdate(T, u) ==
    CASE u.func = "_record_success" -> _record_success(T, u.id, u.latency, u.tokens)
      [] u.func = "_record_failure" -> _record_failure(T, u.id)
      [] u.func = "_record_success(tokens=None)" -> RecordSuccessTypeError(T, u.id, u.latency)
      [] OTHER -> _reset_failure_count(T, u.id)

\* A consumer that ends at the first update function that raises.
RECURSIVE DrainUntilError(_, _)
DrainUntilError(T, queue) ==
    IF queue = <<>> THEN T
    ELSE IF Head(queue).func = "_record_success(tokens=None)"
         THEN ApplyUpdate(T, Head(queue))
         ELSE DrainUntilError(ApplyUpdate(T, Head(queue)), Tail(queue))

\* A consumer that takes the newest item first.
RECURSIVE DrainNewestFirst(_, _)
DrainNewestFirst(T, queue) ==
    IF queue = <<>> THEN T
    ELSE DrainNewestFirst(ApplyUpdate(T, queue[Len(queue)]), SubSeq(queue, 1, Len(queue) - 1))

\* queue_consumer from one wake-up to its next wait on the empty queue: get() does
\* not suspend while the queue holds items and the update functions never suspend,
\* so the consumer applies the whole queue, in order, in one stretch.
RECURSIVE Drain(_, _)
Drain(T, queue) ==
    IF queue = <<>> THEN T ELSE Drain(ApplyUpdate(T, Head(queue)), Tail(queue))

\* ------------------------------------------------------------------ requests

\* The errors a request can raise to its caller.
NoError == [kind |-> "none", node |-> "", attempt |-> 0]
\* raise Exception("没有可用的后端Provider") of text_chat / text_chat_stream.
NoBackendError == [kind |-> "no_backend_provider", node |-> "", attempt |-> 0]
\* raise RuntimeError("负载均衡器没有可用的provider") of the engine.
NoAvailableError == [kind |-> "no_available_provider", node |-> "", attempt |-> 0]
\* The exception the k-th attempt of the request, on node, raised.
NodeError(node, k) == [kind |-> "node", node |-> node, attempt |-> k]

\* The i-th chunk of a node's answer (a single-shot answer is its chunk 1).
Chunk(node, i) == <<node, i>>

\* A request not yet made.
\*   pc         idle | calling (awaiting the node) | yielded (suspended at the yield
\*              of a stream chunk) | done | failed
\*   method     text_chat | text_chat_stream
\*   available  available_providers of the retry loop
\*   attempts   the node calls made, in order, each with how it ended
\*   chunks     chunks the node of the current attempt has yielded
\*   delivered  what the caller received, in order
\*   records    the stats updates the request enqueued, in order
\*   error      the exception raised to the caller
\*   candidates available_providers as the request began
\*   abandoned  <<>>, or once the caller closed the stream <<number of attempts,
\*              number of chunks delivered>> at that moment
NewRequest ==
    [pc |-> "idle", method |-> "", available |-> <<>>, attempts |-> <<>>, chunks |-> 0,
     delivered |-> <<>>, records |-> <<>>, error |-> NoError, candidates |-> <<>>,
     abandoned |-> <<>>]

Attempt(node, out) == [node |-> node, out |-> out]
Selected(rq) == rq.attempts[Len(rq.attempts)].node
EndAttempt(rq, out) == [rq EXCEPT !.attempts[Len(rq.attempts)].out = out]

\* A check of lines 89-90 that never fires.
NoProvidersNever(available_providers) == FALSE

\* `if not available_providers: raise RuntimeError(...)` (lines 89-90).
NoProviders(available_providers) == available_providers = <<>>

\* A check of lines 151-153 that fires on the first failure.
AllFailedAfterFirst(available_providers) == TRUE

\* `if not available_providers: raise e` (lines 151-153).
AllFailed(available_providers) == available_providers = <<>>

\* A pass of the loop without the fallback of lines 105-107: the loop ends when the
\* strategy returns none.
RetryLoopNoFallback(r, rq, available) ==
    IF available = <<>>
    THEN /\ req' = [req EXCEPT ![r] = [rq EXCEPT !.pc = "done", !.available = available]]
         /\ UNCHANGED <<current_index, failback_index>>
    ELSE \E o \in SelectProvider(strategy, GetHealthyProviders(available, provider_health),
                                 provider_weights, current_index, failback_index) :
            /\ req' = [req EXCEPT ![r] =
                         IF o.pick = None
                         THEN [rq EXCEPT !.pc = "done", !.available = available]
                         ELSE [rq EXCEPT !.pc = "calling", !.available = available,
                                         !.chunks = 0,
                                         !.attempts = Append(@, Attempt(o.pick, "pending"))]]
            /\ current_index' = o.current_index
            /\ failback_index' = o.failback_index

\* One pass of `while available_providers:` up to the call of the selected node
\* (lines 96-116), from request record rq with candidate list available.
RetryLoop(r, rq, available) ==
    IF available = <<>>
    THEN \* the loop ends and the generator returns without a result
         /\ req' = [req EXCEPT ![r] = [rq EXCEPT !.pc = "done", !.available = available]]
         /\ UNCHANGED <<current_index, failback_index>>
    ELSE \E o \in SelectProvider(strategy,
                                 GetHealthyProviders(available, provider_health),
                                 provider_weights, current_index, failback_index) :
            LET selected_provider == IF o.pick = None THEN available[1] ELSE o.pick
            IN  /\ req' = [req EXCEPT ![r] =
                              [rq EXCEPT !.pc = "calling",
                                         !.available = available,
                                         !.chunks = 0,
                                         !.attempts = Append(@, Attempt(selected_provider, "pending"))]]
                /\ current_index' = o.current_index
                /\ failback_index' = o.failback_index

\* _execute_with_load_balance_core from its start to the first node call.
ExecuteCore(r, rq, other_providers) ==
    LET available_providers == GetProvidersWithOrder(other_providers, fallback_order)
        started == [rq EXCEPT !.candidates = available_providers]
    IN  IF NoProviders(available_providers)
        THEN /\ req' = [req EXCEPT ![r] = [started EXCEPT !.pc = "failed", !.error = NoAvailableError]]
             /\ UNCHANGED <<current_index, failback_index>>
        ELSE RetryLoop(r, started, available_providers)

\* text_chat (method "text_chat") or the first step of text_chat_stream.
TextChat(r, method) ==
    LET loaded == IF work_providers = <<>>
                  THEN LoadOtherProviders(insts, fallback_order, strategy)
                  ELSE work_providers
        rq == [req[r] EXCEPT !.method = method]
    IN  /\ req[r].pc = "idle"
        /\ work_providers' = loaded
        /\ IF loaded = <<>>
           THEN /\ req' = [req EXCEPT ![r] = [rq EXCEPT !.pc = "failed", !.error = NoBackendError]]
                /\ UNCHANGED <<current_index, failback_index>>
           ELSE ExecuteCore(r, rq, loaded)
        /\ UNCHANGED <<stats_task, term, trace, insts, hostOps, strategy, provider_weights, provider_stats,
                       provider_health, last_applied, stats_queue, hc>>

\* tokens = tokens if int(tokens) > 0 else size (line 139).
MeasuredTokens(m) == IF m.tokens > 0 THEN m.tokens ELSE m.size

\* tokens and size of an attempt (lines 117-124): both start at 0 and _analyze adds
\* the measure of each chunk forwarded; n chunks of measure m each.
Analyzed(m, n) == [tokens |-> n * m.tokens, size |-> n * m.size]

\* Lines 138-142: the call is over; record the success and return.
Succeed(r, rq, latency, m) ==
    LET id == Selected(rq)
        u == SuccessUpdate(id, latency, MeasuredTokens(Analyzed(m, rq.chunks)))
    IN  /\ req' = [req EXCEPT ![r] =
                      [EndAttempt(rq, "ok") EXCEPT !.pc = "done",
                                                  !.records = Append(@, [func |-> u.func, id |-> id])]]
        /\ stats_queue' = Append(stats_queue, u)
        /\ UNCHANGED <<current_index, failback_index>>

\* Lines 143-153: the call raised; record the failure, drop the node, raise or retry.
Fail(r, rq) ==
    LET id == Selected(rq)
        u == FailureUpdate(id)
        failed == [EndAttempt(rq, "failed") EXCEPT !.records = Append(@, [func |-> u.func, id |-> id])]
        available_providers == RemoveFirst(rq.available, id)
    IN  /\ stats_queue' = Append(stats_queue, u)
        /\ IF AllFailed(available_providers)
           THEN /\ req' = [req EXCEPT ![r] =
                             [failed EXCEPT !.pc = "failed",
                                            !.available = available_providers,
                                            !.error = NodeError(id, Len(rq.attempts))]]
                /\ UNCHANGED <<current_index, failback_index>>
           ELSE RetryLoop(r, failed, available_providers)

\* The coroutine of a single-shot call returns its response.
NodeReturns(r, latency, m) ==
    /\ req[r].pc = "calling"
    /\ req[r].method = "text_chat"
    /\ Succeed(r, [req[r] EXCEPT !.chunks = 1,
                                 !.delivered = Append(@, Chunk(Selected(req[r]), 1))],
               latency, m)
    /\ UNCHANGED <<stats_task, term, trace, insts, hostOps, strategy, provider_weights, work_providers,
                   provider_stats, provider_health, last_applied, hc>>

\* The node's stream yields a chunk, which the engine forwards (line 129).
NodeYields(r) ==
    /\ req[r].pc = "calling"
    /\ req[r].method = "text_chat_stream"
    /\ req[r].chunks < MaxChunks
    /\ req' = [req EXCEPT ![r].pc = "yielded",
                          ![r].chunks = @ + 1,
                          ![r].delivered = Append(@, Chunk(Selected(req[r]), req[r].chunks + 1))]
    /\ UNCHANGED <<stats_task, term, trace, insts, hostOps, strategy, provider_weights, work_providers, provider_stats,
                   provider_health, last_applied, stats_queue, current_index, failback_index, hc>>

\* The caller asks for the next chunk.
CallerNext(r) ==
    /\ req[r].pc = "yielded"
    /\ req' = [req EXCEPT ![r].pc = "calling"]
    /\ UNCHANGED <<stats_task, term, trace, insts, hostOps, strategy, provider_weights, work_providers, provider_stats,
                   provider_health, last_applied, stats_queue, current_index, failback_index, hc>>

\* The node's stream ends.
NodeStreamEnds(r, latency, m) ==
    /\ req[r].pc = "calling"
    /\ req[r].method = "text_chat_stream"
    /\ Succeed(r, req[r], latency, m)
    /\ UNCHANGED <<stats_task, term, trace, insts, hostOps, strategy, provider_weights, work_providers,
                   provider_stats, provider_health, last_applied, hc>>

\* The node's call, or the consumption of its stream, raises an Exception.
NodeRaises(r) ==
    /\ req[r].pc = "calling"
    /\ Fail(r, req[r])
    /\ UNCHANGED <<stats_task, term, trace, insts, hostOps, strategy, provider_weights, work_providers,
                   provider_stats, provider_health, last_applied, hc>>

\* GeneratorExit handled like an Exception of the node.
OnGeneratorExitAsFailure(r, rq, latency, m) == Fail(r, rq)

\* `except GeneratorExit: pass` (lines 135-136), then lines 138-142.
OnGeneratorExit(r, rq, latency, m) == Succeed(r, rq, latency, m)

\* The caller closes the stream while the engine is suspended at a yield:
\* GeneratorExit is raised at line 129.
CallerAbandons(r, latency, m) ==
    /\ req[r].pc = "yielded"
    /\ OnGeneratorExit(r, [req[r] EXCEPT !.abandoned = <<Len(req[r].attempts), Len(req[r].delivered)>>],
                       latency, m)
    /\ UNCHANGED <<stats_task, term, trace, insts, hostOps, strategy, provider_weights, work_providers,
                   provider_stats, provider_health, last_applied, hc>>

\* ------------------------------------------------------------ stats consumer

\* queue_consumer wakes up and applies the queued updates.
QueueConsumer ==
    /\ stats_task = "running"
    /\ stats_queue # <<>>
    /\ LET T == Drain(Tracker(provider_stats, provider_health, last_applied), stats_queue)
       IN  /\ provider_stats' = T.stats
           /\ provider_health' = T.health
           /\ last_applied' = T.last
    /\ stats_queue' = <<>>
    /\ UNCHANGED <<stats_task, term, trace, insts, hostOps, strategy, provider_weights, work_providers,
                   current_index, failback_index, req, hc>>

\* --------------------------------------------------------------- health check

\* LoadBalancerProvider.initialize: starts _health_check_loop.
Initialize ==
    /\ hc.pc = "off"
    /\ term.pc = "idle"
    /\ hc' = [hc EXCEPT !.pc = "sleeping"]
    /\ UNCHANGED <<stats_task, term, trace, insts, hostOps, strategy, provider_weights, work_providers, provider_stats,
                   provider_health, last_applied, stats_queue, current_index, failback_index, req>>

\* The sleep of _health_check_loop ends and _perform_health_check begins.
WakeUp ==
    /\ hc.pc = "sleeping"
    /\ hc' = IF work_providers = <<>>
             THEN [hc EXCEPT !.rounds = @ + 1]
             ELSE [hc EXCEPT !.rounds = @ + 1, !.pc = "testing", !.index = 1]
    /\ UNCHANGED <<stats_task, term, trace, insts, hostOps, strategy, provider_weights, work_providers, provider_stats,
                   provider_health, last_applied, stats_queue, current_index, failback_index, req>>

\* A round of the health check, as one of the background events of a run.
HealthCheckWakes ==
    /\ hostOps + hc.rounds < MaxEvents
    /\ WakeUp

\* provider.test() returns: reset_failure_count, then the next provider.
TestSucceeds ==
    /\ hc.pc = "testing"
    /\ stats_queue' = Append(stats_queue, ResetUpdate(work_providers[hc.index]))
    /\ hc' = IF hc.index < Len(work_providers)
             THEN [hc EXCEPT !.index = @ + 1, !.sent = @ + 1]
             ELSE [hc EXCEPT !.pc = "sleeping", !.index = 0, !.sent = @ + 1]
    /\ UNCHANGED <<stats_task, term, trace, insts, hostOps, strategy, provider_weights, work_providers, provider_stats,
                   provider_health, last_applied, current_index, failback_index, req>>

\* provider.test() raises: record_failure enqueues, and `await` of its None result
\* raises TypeError out of _perform_health_check, which _health_check_loop swallows.
TestFails ==
    /\ hc.pc = "testing"
    /\ stats_queue' = Append(stats_queue, FailureUpdate(work_providers[hc.index]))
    /\ hc' = [hc EXCEPT !.pc = "sleeping", !.index = 0, !.sent = @ + 1]
    /\ UNCHANGED <<stats_task, term, trace, insts, hostOps, strategy, provider_weights, work_providers, provider_stats,
                   provider_health, last_applied, current_index, failback_index, req>>

\* ----------------------------------------------------------------------- host

\* hooked_load_provider: the host loads provider id; update_lb_provider() rewrites
\* the configuration template and does not touch the router's work_providers.
HostLoadsProvider(id) ==
    /\ hostOps + hc.rounds < MaxEvents
    /\ id \notin Range(insts)
    /\ insts' = Append(insts, id)
    /\ hostOps' = hostOps + 1
    /\ UNCHANGED <<stats_task, term, trace, strategy, provider_weights, work_providers, provider_stats, provider_health,
                   last_applied, stats_queue, current_index, failback_index, req, hc>>

\* hooked_terminate_provider: the host unloads provider id.
HostTerminatesProvider(id) ==
    /\ hostOps + hc.rounds < MaxEvents
    /\ id \in Range(insts)
    /\ insts' = RemoveAll(insts, id)
    /\ hostOps' = hostOps + 1
    /\ UNCHANGED <<stats_task, term, trace, strategy, provider_weights, work_providers, provider_stats, provider_health,
                   last_applied, stats_queue, current_index, failback_index, req, hc>>

\* ------------------------------------------------------------------ shutdown

\* The stats updates enqueued so far (queue_product calls).
Enqueued == Len(req["r1"].records) + Len(req["r2"].records) + hc.sent

\* LoadBalanceService.terminate up to `await self.stats_task`: the consumer task is
\* never done before (it leaves its loop on cancellation only), so it is cancelled.
\* The CancelledError reaches the consumer at its `await self.stats_queue.get()`.
CancelStatsTask ==
    /\ stats_task' = "cancelling"
    /\ term' = [pc |-> "await_stats_task", enqueued |-> Enqueued]

\* LoadBalancerProvider.terminate, called by the host's provider manager when it
\* unloads the router: the health-check task, when there is one, is cancelled and
\* awaited; otherwise the tracker's terminate is entered at once.
Terminate ==
    /\ term.pc = "idle"
    /\ hostOps + hc.rounds < MaxEvents
    /\ hostOps' = hostOps + 1
    /\ IF hc.pc = "off"
       THEN CancelStatsTask /\ UNCHANGED hc
       ELSE /\ hc' = [hc EXCEPT !.pc = "cancelling", !.index = 0]
            /\ term' = [term EXCEPT !.pc = "await_health_check_task"]
            /\ UNCHANGED stats_task
    /\ UNCHANGED <<trace, insts, strategy, provider_weights, work_providers,
                   provider_stats, provider_health, last_applied, stats_queue,
                   current_index, failback_index, req>>

\* _health_check_loop gets the CancelledError at its sleep or at the provider's
\* test; `except Exception` does not catch it and the task ends.
HealthCheckCancelled ==
    /\ hc.pc = "cancelling"
    /\ hc' = [hc EXCEPT !.pc = "done"]
    /\ UNCHANGED <<stats_task, term, trace, insts, hostOps, strategy, provider_weights,
                   work_providers, provider_stats, provider_health, last_applied,
                   stats_queue, current_index, failback_index, req>>

\* LoadBalancerProvider.terminate goes on after the health-check task has ended.
TerminateService ==
    /\ term.pc = "await_health_check_task"
    /\ hc.pc = "done"
    /\ CancelStatsTask
    /\ UNCHANGED <<trace, insts, hostOps, strategy, provider_weights, work_providers,
                   provider_stats, provider_health, last_applied, stats_queue,
                   current_index, failback_index, req, hc>>

\* queue_consumer gets the CancelledError inside stats_queue.get(), whether or not
\* the queue holds items, and breaks out of its loop (lines 255-257).
ConsumerCancelled ==
    /\ stats_task = "cancelling"
    /\ stats_task' = "done"
    /\ UNCHANGED <<term, trace, insts, hostOps, strategy, provider_weights, work_providers,
                   provider_stats, provider_health, last_applied, stats_queue,
                   current_index, failback_index, req, hc>>

\* `await self.stats_queue.join()` (line 272): returns when no item is unfinished;
\* otherwise it waits for a task_done() that only the consumer would call.
JoinQueue ==
    /\ term.pc = "await_stats_task"
    /\ stats_task = "done"
    /\ term' = [term EXCEPT !.pc = IF stats_queue = <<>> THEN "terminated" ELSE "joining"]
    /\ UNCHANGED <<stats_task, trace, insts, hostOps, strategy, provider_weights,
                   work_providers, provider_stats, provider_health, last_applied,
                   stats_queue, current_index, failback_index, req, hc>>

\* -------------------------------------------------------------- specification

Init ==
    /\ insts = InitialInsts
    /\ hostOps = 0
    /\ \E c \in Configurations : strategy = c.strategy /\ provider_weights = c.weights
    /\ work_providers = <<>>
    /\ provider_stats = [id \in Ids |-> NewStats]
    /\ provider_health = [id \in Ids |-> TRUE]
    /\ last_applied = [id \in Ids |-> "none"]
    /\ stats_queue = <<>>
    /\ current_index = 0
    /\ failback_index = 0
    /\ req = [r \in Requests |-> NewRequest]
    /\ hc = [pc |-> "off", index |-> 0, rounds |-> 0, sent |-> 0]
    /\ stats_task = "running"
    /\ term = [pc |-> "idle", enqueued |-> 0]
    /\ trace = <<>>

Next ==
    \/ \E r \in Requests : \E method \in Methods(r) : TextChat(r, method)
    \/ \E r \in Requests, latency \in Latencies, m \in Measures : NodeReturns(r, latency, m)
    \/ \E r \in Requests : NodeYields(r)
    \/ \E r \in Requests : CallerNext(r)
    \/ \E r \in Requests, latency \in Latencies, m \in Measures : NodeStreamEnds(r, latency, m)
    \/ \E r \in Requests : NodeRaises(r)
    \/ \E r \in Requests, latency \in Latencies, m \in Measures : CallerAbandons(r, latency, m)
    \/ QueueConsumer
    \/ Initialize
    \/ HealthCheckWakes
    \/ TestSucceeds
    \/ TestFails
    \/ \E id \in Nodes : HostLoadsProvider(id)
    \/ \E id \in Nodes : HostTerminatesProvider(id)
    \/ Terminate
    \/ HealthCheckCancelled
    \/ TerminateService
    \/ ConsumerCancelled
    \/ JoinQueue

Spec == Init /\ [][Next]_vars

\* The event loop runs every task that is ready: the consumer, a cancelled task, and
\* terminate once the task it awaits has ended. Nodes, callers and the host are free.
FairSpec ==
    /\ Spec
    /\ WF_vars(QueueConsumer)
    /\ WF_vars(HealthCheckCancelled)
    /\ WF_vars(TerminateService)
    /\ WF_vars(ConsumerCancelled)
    /\ WF_vars(JoinQueue)

\* ------------------------------------------------------ the tracker on its own

\* The (latency, tokens) arguments of record_success: two calls of the same size at
\* latencies 2 and 4, a call that produced no tokens and no text, and a call whose
\* measured latency is 0.
TrackerSamples ==
    {[latency |-> 2, tokens |-> 8], [latency |-> 4, tokens |-> 8],
     [latency |-> 2, tokens |-> 0], [latency |-> 0, tokens |-> 8]}

\* The updates a caller can submit for the nodes n1 and n2.
TrackerUpdates ==
    UNION { {FailureUpdate(id), ResetUpdate(id)}
            \cup {SuccessUpdate(id, x.latency, x.tokens) : x \in TrackerSamples} :
            id \in {"n1", "n2"} }

\* One turn of queue_consumer's loop on update u: `await func(*args, **kwargs)`.
ApplyOne(u) ==
    /\ Len(trace) < MaxUpdates
    /\ LET T == ApplyUpdate(Tracker(provider_stats, provider_health, last_applied), u)
       IN  /\ provider_stats' = T.stats
           /\ provider_health' = T.health
           /\ last_applied' = T.last
    /\ trace' = Append(trace, u)
    /\ UNCHANGED <<insts, hostOps, strategy, provider_weights, work_providers, stats_queue,
                   current_index, failback_index, req, hc, stats_task, term>>

TrackerInit == Init /\ strategy = "random"
TrackerNext == \E u \in TrackerUpdates : ApplyOne(u)
TrackerSpec == TrackerInit /\ [][TrackerNext]_vars

\* ------------------------------------------- the background tasks on their own

\* A round of the health check in a run of the background tasks on their own.
HealthCheckWakesAgain ==
    /\ hc.rounds < MaxRounds
    /\ WakeUp

\* record_success called from outside a request with no token count: the item is
\* enqueued as it is (lines 230-231, 240-241).
RecordSuccessWithoutTokens(id, latency) ==
    /\ Len(trace) < MaxMalformed
    /\ stats_queue' = Append(stats_queue, MalformedSuccessUpdate(id, latency))
    /\ trace' = Append(trace, MalformedSuccessUpdate(id, latency))
    /\ UNCHANGED <<insts, hostOps, strategy, provider_weights, work_providers, provider_stats,
                   provider_health, last_applied, current_index, failback_index, req, hc,
                   stats_task, term>>

\* The router with no fallback order: its first request loads the nodes and fails
\* without an attempt, so every update comes from the health check or from outside.
BackgroundInit == Init /\ strategy = "random"
BackgroundNext ==
    \/ TextChat("r1", "text_chat")
    \/ Initialize
    \/ HealthCheckWakesAgain
    \/ TestSucceeds
    \/ TestFails
    \/ \E id \in {"n1", "n2"}, latency \in Latencies : RecordSuccessWithoutTokens(id, latency)
    \/ QueueConsumer
BackgroundSpec == BackgroundInit /\ [][BackgroundNext]_vars

\* ----------------------------------------------------- a strategy on its own

StrategyNames == {"round_robin", "random", "weighted", "least_failure", "fastest"}
\* The lists of distinct nodes, in every order, the empty list included.
CandidateLists ==
    {ps \in UNION {[1..n -> Nodes] : n \in 0..Cardinality(Nodes)} :
        \A i, j \in DOMAIN ps : ps[i] = ps[j] => i = j}
WeightConfigs == {c.weights : c \in Configurations}
\* Values of a round-robin cursor before the first selection.
Cursors == 0..Cardinality(Nodes)

\* get_strategy(strategy).select_provider(providers, ...) with work_providers as the
\* providers argument; trace gets the provider returned.
Select ==
    /\ Len(trace) < MaxSelections
    /\ \E o \in SelectProvider(strategy, work_providers, provider_weights,
                                current_index, failback_index) :
          /\ trace' = Append(trace, o.pick)
          /\ current_index' = o.current_index
          /\ failback_index' = o.failback_index
    /\ UNCHANGED <<insts, hostOps, strategy, provider_weights, work_providers, provider_stats,
                   provider_health, last_applied, stats_queue, req, hc, stats_task, term>>

StrategyInit ==
    /\ insts = InitialInsts
    /\ hostOps = 0
    /\ strategy \in StrategyNames
    /\ provider_weights \in WeightConfigs
    /\ work_providers \in CandidateLists
    /\ provider_stats = [id \in Ids |-> NewStats]
    /\ provider_health = [id \in Ids |-> TRUE]
    /\ last_applied = [id \in Ids |-> "none"]
    /\ stats_queue = <<>>
    /\ current_index \in Cursors
    /\ failback_index \in Cursors
    /\ req = [r \in Requests |-> NewRequest]
    /\ hc = [pc |-> "off", index |-> 0, rounds |-> 0, sent |-> 0]
    /\ stats_task = "running"
    /\ term = [pc |-> "idle", enqueued |-> 0]
    /\ trace = <<>>
StrategyNext == Select
StrategySpec == StrategyInit /\ [][StrategyNext]_vars

\* ------------------------------------------------------------------- claims

Started(r) == req[r].pc # "idle"
\* The request ended with a node's call completed, the stream read to its end.
Completed(r) == req[r].pc = "done" /\ req[r].abandoned = <<>> /\ req[r].attempts # <<>>
Winner(r) == Selected(req[r])
\* The stats updates func(id) request r enqueued.
Recorded(r, func, id) ==
    Cardinality({i \in DOMAIN req[r].records : req[r].records[i] = [func |-> func, id |-> id]})
\* A node's whole answer as the caller of request r would get it from the node itself.
AnswerOf(r, node) == [i \in 1..req[r].chunks |-> Chunk(node, i)]
\* failure / (success + failure) > 0.5 on the applied counters of id.
FailureRateHigh(id) ==
    LET st == provider_stats[id]
    IN  /\ st.success + st.failure > 0
        /\ FracGreater(Frac(st.failure, st.success + st.failure), FAILURE_RATE_THRESHOLD)
\* The step in which request r begins.
Begins(r) == req[r].pc = "idle" /\ req'[r].pc # "idle"

\* C1: a request in which an attempted node succeeds returns that node's result, has
\* enqueued exactly one failure record for each node attempted before it and exactly
\* one success record for the succeeding node, and invokes no node after the success.
C1_SuccessReturnsWinnersResult ==
    \A r \in Requests :
        Completed(r) =>
            LET k == Len(req[r].attempts)
                earlier == {req[r].attempts[i].node : i \in 1..(k - 1)}
            IN  /\ req[r].attempts[k].out = "ok"
                /\ \A i \in 1..(k - 1) : req[r].attempts[i].out = "failed"
                /\ req[r].delivered = AnswerOf(r, Winner(r))
                /\ \A id \in earlier : Recorded(r, "_record_failure", id) = 1
                /\ Recorded(r, "_record_success", Winner(r)) = 1

\* C2: a request raises a node's error only when every entry of its candidate list
\* has been attempted and has failed in that request, and the error is that of the
\* last attempt; no earlier failure is raised.
C2_ErrorOnlyWhenAllFailed ==
    \A r \in Requests :
        /\ req[r].error.kind = "node" =>
              /\ req[r].pc = "failed"
              /\ Len(req[r].attempts) = Len(req[r].candidates)
              /\ \A id \in Range(req[r].candidates) :
                    \E i \in DOMAIN req[r].attempts : req[r].attempts[i] = Attempt(id, "failed")
              /\ \A i \in DOMAIN req[r].attempts : req[r].attempts[i].out = "failed"
              /\ req[r].error = NodeError(Winner(r), Len(req[r].attempts))
        /\ req[r].pc = "failed" /\ req[r].attempts # <<>> => req[r].error.kind = "node"
        /\ req[r].pc # "failed" => req[r].error = NoError

\* C2, witness: a request failed after two candidates were attempted.
C2_Witness ==
    \E r \in Requests :
        /\ req[r].pc = "failed"
        /\ Len(req[r].attempts) = 2
        /\ req[r].attempts[1].node # req[r].attempts[2].node
        /\ req[r].error = NodeError(req[r].attempts[2].node, 2)

\* The candidate list the documentation describes: the nodes named in the fallback
\* order first, in that order, then the host's other nodes in discovery order.
DocumentedCandidates(all_instances, fallback) ==
    LET others == SelectSeq(all_instances, LAMBDA id : id # Router)
    IN  InOrder(fallback, Range(others)) \o SelectSeq(others, LAMBDA id : id \notin Range(fallback))

\* C3: the candidate list a request starts from holds every node of the host but the
\* router: those of the fallback order first, then the others in discovery order.
C3_CandidatesAreAllSiblings ==
    [][\A r \in Requests :
          Begins(r) => req'[r].candidates = DocumentedCandidates(insts, fallback_order)]_vars

\* C4: with an empty candidate list the request fails at once with the no-provider
\* error, having called no node and enqueued no stats update.
C4_EmptyCandidatesFailAtOnce ==
    \A r \in Requests :
        Started(r) /\ req[r].candidates = <<>> =>
            /\ req[r].pc = "failed"
            /\ req[r].error \in {NoBackendError, NoAvailableError}
            /\ req[r].attempts = <<>>
            /\ req[r].records = <<>>
            /\ req[r].delivered = <<>>

\* C4, witness: a request over loaded providers found its candidate list empty.
C4_Witness ==
    \E r \in Requests :
        /\ req[r].pc = "failed"
        /\ req[r].candidates = <<>>
        /\ work_providers # <<>>
        /\ req[r].error = NoAvailableError

\* C5: a node whose attempt failed is off the request's candidate list and is not
\* called again in that request.
C5_FailedNodeNotRetried ==
    \A r \in Requests :
        \A i \in DOMAIN req[r].attempts :
            req[r].attempts[i].out = "failed" =>
                /\ \A j \in (i + 1)..Len(req[r].attempts) :
                      req[r].attempts[j].node # req[r].attempts[i].node
                /\ req[r].attempts[i].node \notin Range(req[r].available)

\* C6: when a stream raised after yielding chunks and a later candidate succeeds, one
\* failure is recorded for the failed attempt and the caller has received exactly
\* the chunks of the node that succeeded.
C6_FailedStreamChunksNotDelivered ==
    \A r \in Requests :
        Completed(r) /\ req[r].method = "text_chat_stream" =>
            /\ req[r].delivered = AnswerOf(r, Winner(r))
            /\ Len(req[r].records) = Len(req[r].attempts)

\* C7: once the caller has closed the stream, no further chunk is forwarded, no
\* failure is recorded for the attempt being streamed and no other node is called.
C7_AbandonedStreamStops ==
    \A r \in Requests :
        req[r].abandoned # <<>> =>
            /\ req[r].pc = "done"
            /\ Len(req[r].attempts) = req[r].abandoned[1]
            /\ Len(req[r].delivered) = req[r].abandoned[2]
            /\ req[r].attempts[Len(req[r].attempts)].out # "failed"
            /\ Cardinality({i \in DOMAIN req[r].records :
                               req[r].records[i].func = "_record_failure"})
                  = Len(req[r].attempts) - 1

\* C7, witness: a stream closed by its caller during the second attempt.
C7_Witness ==
    \E r \in Requests :
        /\ req[r].abandoned # <<>>
        /\ Len(req[r].attempts) = 2
        /\ Len(req[r].delivered) >= 1

\* C8: a request that begins after the host's node set changed uses the candidate
\* list of the host's current node set: no unloaded node, every newly loaded one.
C8_CandidatesFollowHost ==
    [][\A r \in Requests :
          Begins(r) =>
              /\ Range(req'[r].candidates) \subseteq Range(insts)
              /\ req'[r].candidates =
                    GetProvidersWithOrder(LoadOtherProviders(insts, fallback_order, strategy),
                                          fallback_order)]_vars

\* C9: the router is never a candidate and never the node a request calls.
C9_RouterNeverSelected ==
    /\ Router \notin Range(work_providers)
    /\ \A r \in Requests :
          /\ Router \notin Range(req[r].candidates)
          /\ Router \notin Range(req[r].available)
          /\ \A i \in DOMAIN req[r].attempts : req[r].attempts[i].node # Router

\* C9, witness: a weight slot names the router and a request has called a node.
C9_Witness ==
    /\ Router \in Range(fallback_order)
    /\ \E r \in Requests : req[r].attempts # <<>>

\* C10 as claimed: a node whose applied counters have failure/(success+failure) > 0.5
\* has a false health flag.
C10_HighFailureRateUnhealthy ==
    \A id \in Ids : FailureRateHigh(id) => ~provider_health[id]

\* C10 as amended: a node whose applied counters have failure/(success+failure) > 0.5
\* and for which no success was applied after its last applied failure has a false
\* health flag, and the healthy filter leaves it out.
C10_HighFailureRateUnhealthyUntilSuccess ==
    \A id \in Ids :
        FailureRateHigh(id) /\ last_applied[id] = "failure" =>
            /\ ~provider_health[id]
            /\ id \notin Range(GetHealthyProviders(work_providers, provider_health))

\* C10, witness: a node with a success and two failures applied, the last a failure.
C10_Witness ==
    \E id \in Range(work_providers) :
        /\ provider_stats[id].success >= 1
        /\ FailureRateHigh(id)
        /\ last_applied[id] = "failure"

\* The step in which the consumer takes updates off the queue.
ConsumerApplies == Len(stats_queue') < Len(stats_queue)
\* The last update for id in queue q, or <<>>.
LastFor(q, id) ==
    LET I == {i \in DOMAIN q : q[i].id = id}
    IN  IF I = {} THEN <<>> ELSE q[CHOOSE i \in I : \A j \in I : j <= i]

\* C11: once the update of a successful health check of a node has been applied, the
\* node's health flag is true.
C11_SuccessfulCheckRestoresHealth ==
    [][ConsumerApplies =>
          \A id \in Ids :
              LastFor(stats_queue, id) = ResetUpdate(id) => provider_health'[id]]_vars

\* C13: a step of a health-check round tests the candidate it stands at and enqueues
\* one update for it, a reset after a passed test and a failure after a failed one;
\* the round goes on to the next candidate and ends only after the last one.
C13_RoundTestsEveryCandidate ==
    [][hc.pc = "testing" /\ hc' # hc /\ hc'.pc \in {"testing", "sleeping"} =>
          LET id == work_providers[hc.index]
          IN  /\ \/ stats_queue' = Append(stats_queue, ResetUpdate(id))
                 \/ stats_queue' = Append(stats_queue, FailureUpdate(id))
              /\ hc'.pc = "testing" => hc'.index = hc.index + 1
              /\ hc'.pc = "sleeping" => hc.index = Len(work_providers)]_vars

\* C14: when the tracker's consumer has ended, every update that was enqueued before
\* the tracker's terminate began has been applied.
C14_QueuedUpdatesAppliedBeforeEnd ==
    stats_task = "done" => Enqueued - Len(stats_queue) >= term.enqueued

\* C15: a terminate of the router that has begun completes.
C15_TerminateCompletes == (term.pc # "idle") ~> (term.pc = "terminated")

\* The updates of q applied one after the other, oldest first.
RECURSIVE ApplyInOrder(_, _)
ApplyInOrder(T, q) ==
    IF q = <<>> THEN T
    ELSE LET u == Head(q)
             next == CASE u.func = "_record_success" ->
                              _record_success(T, u.id, u.latency, u.tokens)
                       [] u.func = "_record_failure" -> _record_failure(T, u.id)
                       [] OTHER -> _reset_failure_count(T, u.id)
         IN  ApplyInOrder(next, Tail(q))

\* C20: in every step either the queue only grows at its end and the stats are left
\* alone, or the consumer takes a prefix of the queue and the stats become those
\* of applying that prefix in enqueue order, each update once.
C20_UpdatesAppliedOnceInOrder ==
    [][LET T == Tracker(provider_stats, provider_health, last_applied)
           Tn == Tracker(provider_stats', provider_health', last_applied')
           n == Len(stats_queue)
       IN  \/ /\ Len(stats_queue') >= n
              /\ SubSeq(stats_queue', 1, n) = stats_queue
              /\ Tn = T
           \/ \E k \in 1..n :
                 /\ stats_task = "running"
                 /\ stats_queue' = SubSeq(stats_queue, k + 1, n)
                 /\ Tn = ApplyInOrder(T, SubSeq(stats_queue, 1, k))]_vars

\* C20, witness: updates of both requests and of the health check have been applied,
\* a failure and a success of one node among them.
C20_Witness ==
    /\ stats_queue = <<>>
    /\ hc.sent >= 1
    /\ \A r \in Requests : req[r].records # <<>>
    /\ \E id \in Nodes : provider_stats[id].success >= 1 /\ provider_stats[id].failure >= 1

Last(q) == q[Len(q)]

\* C12: after a success update has been applied for a node its health flag is true,
\* whatever its counters are.
C12_SuccessRestoresHealth ==
    trace # <<>> /\ Last(trace).func = "_record_success" => provider_health[Last(trace).id]

\* C12, witness: a node demoted by three failures without a success is healthy after
\* one reset and one success, its failure rate still above one half.
C12_Witness ==
    /\ trace = << FailureUpdate("n1"), FailureUpdate("n1"), FailureUpdate("n1"),
                  ResetUpdate("n1"), SuccessUpdate("n1", 2, 8) >>
    /\ provider_stats["n1"].failure = 2
    /\ provider_stats["n1"].success = 1
    /\ provider_health["n1"]

\* C16: a strategy returns none on the empty list, the candidate itself on a list of
\* one, and a member of the list on any other list.
C16_SelectionIsMember ==
    LET Right(pick) ==
            /\ work_providers = <<>> => pick = None
            /\ Len(work_providers) = 1 => pick = work_providers[1]
            /\ work_providers # <<>> => pick \in Range(work_providers)
    IN  /\ \A o \in SelectProvider(strategy, work_providers, provider_weights,
                                  current_index, failback_index) : Right(o.pick)
        /\ \A i \in DOMAIN trace : Right(trace[i])

\* C16, witness: the weighted strategy was asked with one candidate of weight 0.
C16_Witness ==
    /\ strategy = "weighted"
    /\ Len(work_providers) = 1
    /\ WeightOf(work_providers[1], provider_weights) <= 0
    /\ trace # <<>>

\* C17: on a fixed list of n candidates, n round-robin selections in a row return
\* every candidate once, and the next one returns the first again, from any cursor.
C17_RoundRobinCycle ==
    LET n == Len(work_providers)
    IN  strategy = "round_robin" /\ n > 0 =>
            /\ Len(trace) >= n =>
                  /\ {trace[i] : i \in 1..n} = Range(work_providers)
                  /\ \A i, j \in 1..n : trace[i] = trace[j] => i = j
            /\ Len(trace) >= n + 1 => trace[n + 1] = trace[1]

\* C17, witness: a cycle over three candidates that began in the middle of the list.
C17_Witness ==
    /\ strategy = "round_robin"
    /\ Len(work_providers) = 3
    /\ Len(trace) = 4
    /\ trace[1] = work_providers[2]

\* The weight the documentation gives a candidate: that of the first slot naming
\* it, 1 when no slot names it or the weight is no integer.
ClaimedWeight(id, weights) ==
    LET named == {i \in DOMAIN weights : weights[i].provider = id}
        first == CHOOSE i \in named : \A j \in named : i <= j
    IN  IF named = {} THEN 1
        ELSE IF weights[first].weight \in DOMAIN IntOf THEN IntOf[weights[first].weight]
        ELSE 1
\* The candidates in order with the half-open interval of draws of each.
RECURSIVE ClaimedIntervals(_, _, _)
ClaimedIntervals(providers, weights, from) ==
    IF providers = <<>> THEN <<>>
    ELSE LET w == ClaimedWeight(Head(providers), weights)
             to == IF w > 0 THEN from + w ELSE from
         IN  <<[id |-> Head(providers), from |-> from, to |-> to]>>
             \o ClaimedIntervals(Tail(providers), weights, to)

\* C18: when weights are configured and the total weight is positive, every draw r
\* of [0, total) returns the candidate whose interval holds r: weight(n) draws
\* return n, and a candidate of weight <= 0 is never returned.
C18_WeightedDrawFollowsIntervals ==
    LET iv == ClaimedIntervals(work_providers, provider_weights, 0)
        total == IF iv = <<>> THEN 0 ELSE Last(iv).to
        weighted_list == WeightedList(work_providers, provider_weights, 0)
    IN  strategy = "weighted" /\ provider_weights # <<>> /\ total > 0 =>
            /\ \A r \in 0..(total - 1) :
                  \E i \in DOMAIN iv :
                      /\ iv[i].from <= r /\ r < iv[i].to
                      /\ WeightedPick(weighted_list, r) = iv[i].id
            /\ \A i \in DOMAIN iv :
                  Cardinality({r \in 0..(total - 1) : WeightedPick(weighted_list, r) = iv[i].id})
                      = iv[i].to - iv[i].from
            /\ \A k \in DOMAIN trace :
                  \E i \in DOMAIN iv : iv[i].id = trace[k] /\ iv[i].to > iv[i].from

\* C18, witness: a draw over n1 of weight 1 and n2 of weight 2 returned n2.
C18_Witness ==
    /\ strategy = "weighted"
    /\ work_providers = <<"n1", "n2">>
    /\ WeightOf("n1", provider_weights) = 1
    /\ WeightOf("n2", provider_weights) = 2
    /\ trace # <<>> /\ Last(trace) = "n2"

\* C19: applying a failure update for a node adds 1 to its failure counter, then
\* sets its flag false if failure/(success+failure) > 0.5 or failure >= 3 with no
\* success, and leaves the flag as it was otherwise; nothing else of the stats or
\* of another node changes.
C19_FailureUpdate ==
    [][\A id \in Ids :
          trace' = Append(trace, FailureUpdate(id)) =>
              LET f == provider_stats[id].failure + 1
                  sc == provider_stats[id].success
              IN  /\ provider_stats' =
                        [provider_stats EXCEPT ![id] = [@ EXCEPT !.failure = f]]
                  /\ provider_health' =
                        [provider_health EXCEPT
                            ![id] = IF 2 * f > sc + f \/ (f >= 3 /\ sc = 0) THEN FALSE ELSE @]]_vars

\* C19, witness: a failure after two successes left the node healthy, and a second
\* failure, at a rate of exactly one half, did so too.
C19_Witness ==
    /\ Len(trace) = 4
    /\ Last(trace) = FailureUpdate("n1")
    /\ provider_stats["n1"].success = 2
    /\ provider_stats["n1"].failure = 2
    /\ provider_health["n1"]

\* A step in which request r starts an attempt: the retry loop has selected a node.
Attempts(r) == Len(req'[r].attempts) = Len(req[r].attempts) + 1
\* The candidates request r had left at the selection, and the node selected.
Remaining(r) == req'[r].available
Chosen(r) == Last(req'[r].attempts).node
\* Some candidate of list av is flagged healthy.
SomeHealthy(av) == \E i \in DOMAIN av : provider_health[av[i]]

\* C21: at each selection attempt the node attempted is one of the request's remaining
\* candidates, and a candidate whose health flag is false at that moment is attempted
\* only if no remaining candidate of the request is flagged healthy.
C21_UnhealthyOnlyWhenNoneHealthy ==
    [][\A r \in Requests :
          Attempts(r) =>
              /\ Chosen(r) \in Range(Remaining(r))
              /\ SomeHealthy(Remaining(r)) => provider_health[Chosen(r)]]_vars

\* C21, witness: the first candidate left to a request is flagged unhealthy, the
\* second is healthy, and the second is the node being attempted, as the first attempt.
C21_Witness ==
    \E r \in Requests :
        /\ req[r].pc = "calling"
        /\ Len(req[r].available) = 2
        /\ Len(req[r].attempts) = 1
        /\ ~provider_health[req[r].available[1]]
        /\ provider_health[req[r].available[2]]
        /\ Selected(req[r]) = req[r].available[2]

\* C22: when no remaining candidate of a request is flagged healthy the engine attempts
\* the first remaining candidate in list order, and a request with a non-empty
\* candidate list makes an attempt when it begins, healthy candidates or not.
C22_FallbackAttemptsFirstRemaining ==
    [][\A r \in Requests :
          /\ Attempts(r) /\ ~SomeHealthy(Remaining(r)) => Chosen(r) = Remaining(r)[1]
          /\ Begins(r) /\ req'[r].candidates # <<>> => Attempts(r)]_vars

\* C22, witness: both candidates of a request were flagged unhealthy when it began;
\* the first was attempted and failed, and the second is being attempted.
C22_Witness ==
    \E r \in Requests :
        /\ req[r].pc = "calling"
        /\ Len(req[r].candidates) = 2
        /\ \A i \in DOMAIN req[r].candidates : ~provider_health[req[r].candidates[i]]
        /\ Len(req[r].attempts) = 2
        /\ req[r].attempts[1] = Attempt(req[r].candidates[1], "failed")
        /\ Selected(req[r]) = req[r].candidates[2]

\* C26: a request makes at most as many attempts as its initial candidate list is
\* long: an attempt that ends either ends the request successfully or removes one
\* entry from the request's candidate list, and the request fails exactly when that
\* removal empties the list.
C26_AttemptsBoundedByCandidates ==
    [][\A r \in Requests :
          LET k == Len(req[r].attempts)
              ends == /\ req[r].pc \in {"calling", "yielded"}
                      /\ req'[r].attempts[k].out # "pending"
          IN  /\ Len(req'[r].attempts) <= Len(req'[r].candidates)
              /\ ends =>
                    \/ /\ req'[r].attempts[k].out = "ok"
                       /\ req'[r].pc = "done"
                       /\ Len(req'[r].attempts) = k
                    \/ /\ req'[r].attempts[k].out = "failed"
                       /\ Len(req'[r].available) = Len(req[r].available) - 1
                       /\ req'[r].available = <<>> <=> req'[r].pc = "failed"
                       /\ req'[r].available # <<>> <=> Len(req'[r].attempts) = k + 1]_vars

\* C26, witness: a request with two candidates ended at its second attempt, the first
\* having failed.
C26_Witness ==
    \E r \in Requests :
        /\ req[r].pc = "done"
        /\ Len(req[r].candidates) = 2
        /\ Len(req[r].attempts) = 2
        /\ req[r].attempts[1].out = "failed"
        /\ req[r].attempts[2].out = "ok"

\* C28: under the weighted strategy a candidate whose configured weight is not positive
\* is attempted only when no remaining candidate of the request is both flagged
\* healthy and of positive weight.
C28_NonPositiveWeightIsLastResort ==
    [][\A r \in Requests :
          /\ Attempts(r)
          /\ strategy = "weighted"
          /\ ClaimedWeight(Chosen(r), provider_weights) <= 0
          => ~\E i \in DOMAIN Remaining(r) :
                 /\ provider_health[Remaining(r)[i]]
                 /\ ClaimedWeight(Remaining(r)[i], provider_weights) > 0]_vars

\* C28, witness: under the weighted strategy the candidate of weight 0 is being
\* attempted after the candidate of positive weight failed in the same request.
C28_Witness ==
    \E r \in Requests :
        /\ strategy = "weighted"
        /\ req[r].pc = "calling"
        /\ Len(req[r].attempts) = 2
        /\ req[r].attempts[1].out = "failed"
        /\ ClaimedWeight(req[r].attempts[1].node, provider_weights) > 0
        /\ ClaimedWeight(Selected(req[r]), provider_weights) <= 0

\* x/2 + y/2 for fractions x and y.
HalfAndHalf(x, y) == Frac(x.n * y.d + y.n * x.d, 2 * x.d * y.d)

\* C24: the first applied success of a node sets its latencyEWMA to the latency and
\* its throughputEWMA to tokens/latency (0 when latency <= 0); every later applied
\* success sets each to half the new sample plus half the previous value.
C24_EwmaFirstSampleThenHalves ==
    [][\A id \in Ids : \A x \in TrackerSamples :
          trace' = Append(trace, SuccessUpdate(id, x.latency, x.tokens)) =>
              LET first == provider_stats[id].success = 0
                  latency == Frac(x.latency, 1)
                  tp == IF x.latency > 0 THEN Frac(x.tokens, x.latency) ELSE Zero
              IN  /\ provider_stats'[id].latency =
                        IF first THEN latency
                        ELSE HalfAndHalf(latency, provider_stats[id].latency)
                  /\ provider_stats'[id].throughput =
                        IF first THEN tp
                        ELSE HalfAndHalf(tp, provider_stats[id].throughput)]_vars

\* C25: applying a reset for a node takes 1 from its failure counter when that is
\* positive and leaves it at 0 otherwise, and changes nothing else of the stats of
\* any node; the success and failure counters are never negative.
C25_ResetDecrementsFlooredAtZero ==
    [][/\ \A id \in Ids :
             /\ provider_stats[id].success >= 0 /\ provider_stats[id].failure >= 0
             /\ provider_stats'[id].success >= 0 /\ provider_stats'[id].failure >= 0
       /\ \A id \in Ids :
             trace' = Append(trace, ResetUpdate(id)) =>
                 provider_stats' =
                     [provider_stats EXCEPT ![id].failure = IF @ > 0 THEN @ - 1 ELSE 0]]_vars

\* C25, witness: after a failure of n1, a success of n2 and two resets of n1, the
\* failure counter of n1 is 0 and the record of n2 is there.
C25_Witness ==
    /\ trace = <<FailureUpdate("n1"), SuccessUpdate("n2", 2, 8),
                 ResetUpdate("n1"), ResetUpdate("n1")>>
    /\ provider_stats["n1"].failure = 0
    /\ provider_stats["n2"].success = 1

\* C27: a failure applied for a node with no applied success leaves the node flagged
\* unhealthy, and whenever the rule "failure >= 3 and success == 0" holds after a
\* failure the failure-rate rule holds too, so the second rule demotes no node.
C27_CountRuleNeverDecides ==
    [][\A id \in Ids :
          trace' = Append(trace, FailureUpdate(id)) =>
              LET failure == provider_stats[id].failure + 1
                  success == provider_stats[id].success
                  rate_rule == FracGreater(Frac(failure, success + failure),
                                           FAILURE_RATE_THRESHOLD)
                  count_rule == failure >= MAX_CONSECUTIVE_FAILURES /\ success = 0
              IN  /\ success = 0 => ~provider_health'[id]
                  /\ count_rule => rate_rule]_vars

\* C27, witness: three failures of n1 and no success were applied, so the rule
\* "failure >= 3 and success == 0" holds, and n1 is flagged unhealthy.
C27_Witness ==
    /\ trace = <<FailureUpdate("n1"), FailureUpdate("n1"), FailureUpdate("n1")>>
    /\ provider_stats["n1"].failure = MAX_CONSECUTIVE_FAILURES
    /\ provider_stats["n1"].success = 0
    /\ ~provider_health["n1"]

\* Every update of queue q applied to tracker T, one after the other, whether or not
\* the function of an earlier one raised.
RECURSIVE ApplyEach(_, _)
ApplyEach(T, q) == IF q = <<>> THEN T ELSE ApplyEach(ApplyUpdate(T, Head(q)), Tail(q))

\* C23: neither an update function that raises nor an error in a health-check round
\* ends its task: the stats consumer stays running and a wake-up of it applies every
\* queued update, those queued behind a raising one included, and the health-check
\* loop, once started, is either in a round or sleeping before its next round.
C23_TasksSurviveErrors ==
    [][/\ stats_task' = "running"
       /\ hc.pc # "off" => hc'.pc \in {"sleeping", "testing"}
       /\ ConsumerApplies =>
              /\ stats_queue' = <<>>
              /\ Tracker(provider_stats', provider_health', last_applied')
                     = ApplyEach(Tracker(provider_stats, provider_health, last_applied),
                                 stats_queue)]_vars

\* C23, witness: the update for n1 that raised was applied as far as it got (success
\* counted, throughput and flag not written); the failure of n1's test in round 1,
\* queued behind it, was applied after it (a failure applied first would have left
\* n1 flagged unhealthy); and the loop is in round 2 although round 1 ended in an error.
C23_Witness ==
    /\ trace = <<MalformedSuccessUpdate("n1", 2)>>
    /\ stats_queue = <<>>
    /\ stats_task = "running"
    /\ provider_stats["n1"].success = 1
    /\ provider_stats["n1"].throughput = Zero
    /\ provider_stats["n1"].failure = 1
    /\ provider_health["n1"]
    /\ hc.rounds = 2
    /\ hc.sent = 1
    /\ hc.pc = "testing"

====
